---- MODULE Spec2Model ----
(***************************************************************************)
(* Alice's side of the BB92-style key distribution of app_alice.py: the    *)
(* EOF-framed classical channel (recv_single_msg, send_single_msg and the  *)
(* assured mode built on them) and the run of main (pair distribution,     *)
(* basis reconciliation, error estimation, report).                        *)
(*                                                                         *)
(* A Python str is a sequence of one-character strings, so that split,     *)
(* json.dumps and json.loads are computed character by character.          *)
(* Optional[bool] fields are "None", "True" or "False".                    *)
(***************************************************************************)
EXTENDS Integers, Sequences, FiniteSets, TLC

(* ---------------------------------------------------------------- bounds *)
\* Calls of send_single_msg / sendClassicalAssured made by both endpoints
\* together (the ACK replies of recvClassicalAssured are not counted).
MaxSends == 3
\* Longest string payload handed to sendClassicalAssured in the round trip.
MaxDataLen == 3

(* ------------------------------------------------------- python strings *)
EOF == <<"E", "O", "F">>
ACK == <<"A", "C", "K">>
QUOTE == "\""
Digits == {"0", "1"}

StartsWith(s, p) == Len(s) >= Len(p) /\ SubSeq(s, 1, Len(p)) = p

RECURSIVE SplitFrom(_, _, _)
\* str.split(sep) scanning left to right, cur being the piece under way.
SplitFrom(s, sep, cur) ==
  IF s = <<>> THEN <<cur>>
  ELSE IF StartsWith(s, sep)
       THEN <<cur>> \o SplitFrom(SubSeq(s, Len(sep) + 1, Len(s)), sep, <<>>)
       ELSE SplitFrom(Tail(s), sep, Append(cur, Head(s)))

split(s, sep) == SplitFrom(s, sep, <<>>)

\* l[:-1]
ButLast(l) == SubSeq(l, 1, Len(l) - 1)

RECURSIVE Concat(_)
\* The bytes of several chunks one after the other.
Concat(chunks) == IF chunks = <<>> THEN <<>> ELSE Head(chunks) \o Concat(Tail(chunks))

(* ------------------------------------------------------------------ json *)
\* A JSON value is <<"int", digits>> or <<"str", characters>>; <<"error", <<>>>>
\* stands for the JSONDecodeError of json.loads, <<"none", <<>>>> for no value.
NoData == <<"none", <<>>>>
DecodeError == <<"error", <<>>>>

dumps(d) == IF d[1] = "str" THEN <<QUOTE>> \o d[2] \o <<QUOTE>> ELSE d[2]

IsNumber(t) ==
  /\ Len(t) >= 1
  /\ \A k \in 1..Len(t) : t[k] \in Digits
  /\ (Len(t) > 1 => t[1] # "0")

IsString(t) ==
  /\ Len(t) >= 2
  /\ t[1] = QUOTE /\ t[Len(t)] = QUOTE
  /\ \A k \in 2..(Len(t) - 1) : t[k] # QUOTE

\* Mutant: the quotes are left around a decoded string.
loads_KeepQuotes(t) ==
  IF IsNumber(t) THEN <<"int", t>>
  ELSE IF IsString(t) THEN <<"str", t>>
  ELSE DecodeError

loads(t) ==
  IF IsNumber(t) THEN <<"int", t>>
  ELSE IF IsString(t) THEN <<"str", SubSeq(t, 2, Len(t) - 1)>>
  ELSE DecodeError

(* --------------------------------------------------------------- channel *)
Ends == {"alice", "bob"}
Peer(e) == IF e = "alice" THEN "bob" ELSE "alice"

\* Messages an endpoint hands to send_single_msg directly.
RawMsgs == {ACK, <<"x">>, <<"x", "E", "O", "F", "y">>}
\* Values an endpoint hands to sendClassicalAssured.
Data == {<<"int", <<"1">>>>, <<"str", <<"x">>>>, <<"str", <<"E", "O", "F">>>>}

RECURSIVE StringsUpTo(_)
StringsUpTo(n) ==
  IF n = 0 THEN {<<>>}
  ELSE LET shorter == StringsUpTo(n - 1)
       IN shorter \cup {Append(s, c) : s \in shorter, c \in {"E", "O", "F", "x"}}

\* Values sent in the assured round trip.
RoundTripData == {<<"str", s>> : s \in StringsUpTo(MaxDataLen)} \cup {<<"int", <<"1">>>>}

VARIABLES
  buf_msgs,   \* buf_msgs[e]: the leftover buffer of endpoint e (line 14)
  wire,       \* wire[e]: chunks in flight towards e, oldest first
  pc,         \* pc[e]: "idle", "await" (in the ACK loop), "ack" (between the
              \* receive and the ACK of recvClassicalAssured), "raised"
  data,       \* data[e]: the local `data` of recvClassicalAssured
  ret,        \* ret[e]: what the last recvClassicalAssured returned
  sent,       \* sent[e]: history of the messages e passed to send_single_msg
  got         \* got[e]: history of what recv_single_msg returned at e

chanVars == <<buf_msgs, wire, pc, data, ret, sent, got>>

VARIABLES
  mpc,                  \* where main is
  num_bits,             \* main's parameter num_bits (n)
  key_length,           \* main's parameter key_length
  num_test_bits,        \* num_test_bits of main and estimate_error_rate (k)
  i,                    \* loop index of distribute_bb92_states
  basis_flips,          \* basis_flips of distribute_bb92_states
  bit_flips,            \* bit_flips of distribute_bb92_states (-1 is None)
  m,                    \* the measurement future m (-1 until the flush)
  qlog,                 \* the calls made on the quantum SDK, in order
  sentinel,             \* what socket.recv() returned at line 229
  sock_log,             \* the structured messages sent and received, in order
  pairs_info,           \* the list of PairInfo
  remote_bases,         \* payload of the peer's "Bases" message
  test_indices,         \* the sampled test set
  test_outcomes,        \* (index, outcome) of the test set
  target_test_outcomes, \* payload of the peer's test outcomes
  error_rate,           \* <<num_error, num_test_bits>> returned at line 148
  report,               \* what main returned, as a sequence of at most one record
  err                   \* the exception that ended main, or "none"

mainVars == <<mpc, num_bits, key_length, num_test_bits, i, basis_flips, bit_flips, m, qlog,
              sentinel, sock_log, pairs_info, remote_bases, test_indices, test_outcomes,
              target_test_outcomes, error_rate, report, err>>

ChanInit ==
  /\ buf_msgs = [e \in Ends |-> <<>>]
  /\ wire = [e \in Ends |-> <<>>]
  /\ pc = [e \in Ends |-> "idle"]
  /\ data = [e \in Ends |-> NoData]
  /\ ret = [e \in Ends |-> NoData]
  /\ sent = [e \in Ends |-> <<>>]
  /\ got = [e \in Ends |-> <<>>]

\* What socket.recv() may hand back at e: the first j chunks in flight.
Reads(e) == {Concat(SubSeq(wire[e], 1, j)) : j \in 1..Len(wire[e])}
ChunksOf(e, bytes) == CHOOSE j \in 1..Len(wire[e]) : Concat(SubSeq(wire[e], 1, j)) = bytes

\* Mutant: the messages behind the first one of a read are not kept.
recv_single_msg_DropsSurplus(buf, bytes) ==
  IF Len(buf) > 0
  THEN [msg |-> Head(buf), buf |-> Tail(buf), read |-> FALSE, err |-> FALSE]
  ELSE LET msgs == ButLast(split(bytes, EOF))
       IN IF msgs = <<>>
          THEN [msg |-> <<>>, buf |-> buf, read |-> TRUE, err |-> TRUE]
          ELSE [msg |-> Head(msgs), buf |-> buf, read |-> TRUE, err |-> FALSE]

\* recv_single_msg on buffer buf, bytes being what socket.recv() returns when
\* it is called: the message, the new buffer, whether the socket was read, and
\* whether msgs[0] raised IndexError.
recv_single_msg(buf, bytes) ==
  IF Len(buf) > 0
  THEN [msg |-> Head(buf), buf |-> Tail(buf), read |-> FALSE, err |-> FALSE]
  ELSE LET msgs == ButLast(split(bytes, EOF))
       IN IF msgs = <<>>
          THEN [msg |-> <<>>, buf |-> buf, read |-> TRUE, err |-> TRUE]
          ELSE [msg |-> Head(msgs), buf |-> buf \o Tail(msgs), read |-> TRUE, err |-> FALSE]

\* The outcomes of one call of recv_single_msg at e; none while it blocks.
RecvOutcomes(e) ==
  IF Len(buf_msgs[e]) > 0
  THEN {recv_single_msg(buf_msgs[e], <<>>) @@ [chunks |-> 0]}
  ELSE {recv_single_msg(buf_msgs[e], bytes) @@ [chunks |-> ChunksOf(e, bytes)] : bytes \in Reads(e)}

\* The effect of one call of recv_single_msg at e on the buffer and the wire.
Receive(e, r) ==
  /\ buf_msgs' = [buf_msgs EXCEPT ![e] = r.buf]
  /\ wire' = [wire EXCEPT ![e] = SubSeq(@, r.chunks + 1, Len(@))]

\* send_single_msg: one chunk msg + EOF towards the peer.
send_single_msg(e, msg, ctx) ==
  /\ wire' = [wire EXCEPT ![Peer(e)] = Append(@, msg \o EOF)]
  /\ sent' = [sent EXCEPT ![e] = Append(@, [msg |-> msg, ctx |-> ctx])]

Calls == Len(SelectSeq(sent["alice"] \o sent["bob"], LAMBDA s : s.ctx # "ack"))

\* e calls send_single_msg(socket, msg).
SendSingle(e, msg) ==
  /\ pc[e] = "idle"
  /\ Calls < MaxSends
  /\ send_single_msg(e, msg, "raw")
  /\ UNCHANGED <<buf_msgs, pc, data, ret, got>>
  /\ UNCHANGED mainVars

\* e calls recv_single_msg(socket).
RecvSingle(e) ==
  /\ pc[e] = "idle"
  /\ \E r \in RecvOutcomes(e) :
       /\ Receive(e, r)
       /\ pc' = [pc EXCEPT ![e] = IF r.err THEN "raised" ELSE "idle"]
       /\ got' = [got EXCEPT ![e] = IF r.err THEN @ ELSE Append(@, [msg |-> r.msg, ctx |-> "app"])]
  /\ UNCHANGED <<data, ret, sent>>
  /\ UNCHANGED mainVars

\* sendClassicalAssured, lines 37-38: serialise and send.
SA_Send(e, d) ==
  /\ pc[e] = "idle"
  /\ Calls < MaxSends
  /\ send_single_msg(e, dumps(d), "assured")
  /\ pc' = [pc EXCEPT ![e] = "await"]
  /\ UNCHANGED <<buf_msgs, data, ret, got>>
  /\ UNCHANGED mainVars

\* Mutant: the loop ends on whatever message comes.
AfterWait_AnyMessage(msg) == "idle"

\* Where the ACK loop goes after receiving msg.
AfterWait(msg) == IF msg # ACK THEN "await" ELSE "idle"

\* sendClassicalAssured, lines 39-40: one turn of the ACK loop.
SA_Wait(e) ==
  /\ pc[e] = "await"
  /\ \E r \in RecvOutcomes(e) :
       /\ Receive(e, r)
       /\ pc' = [pc EXCEPT ![e] = IF r.err THEN "raised" ELSE AfterWait(r.msg)]
       /\ got' = [got EXCEPT ![e] =
                    IF r.err THEN @
                    ELSE Append(@, [msg |-> r.msg, ctx |-> IF AfterWait(r.msg) = "idle" THEN "ack" ELSE "drop"])]
  /\ UNCHANGED <<data, ret, sent>>
  /\ UNCHANGED mainVars

\* recvClassicalAssured, lines 44-45: receive one message and decode it.
RA_Recv(e) ==
  /\ pc[e] = "idle"
  /\ \E r \in RecvOutcomes(e) :
       /\ Receive(e, r)
       /\ got' = [got EXCEPT ![e] = IF r.err THEN @ ELSE Append(@, [msg |-> r.msg, ctx |-> "assured"])]
       /\ IF r.err \/ loads(r.msg) = DecodeError
          THEN pc' = [pc EXCEPT ![e] = "raised"] /\ UNCHANGED data
          ELSE pc' = [pc EXCEPT ![e] = "ack"] /\ data' = [data EXCEPT ![e] = loads(r.msg)]
  /\ UNCHANGED <<ret, sent>>
  /\ UNCHANGED mainVars

\* recvClassicalAssured, lines 46-47: acknowledge and return the value.
RA_Ack(e) ==
  /\ pc[e] = "ack"
  /\ send_single_msg(e, ACK, "ack")
  /\ ret' = [ret EXCEPT ![e] = data[e]]
  /\ data' = [data EXCEPT ![e] = NoData]
  /\ pc' = [pc EXCEPT ![e] = "idle"]
  /\ UNCHANGED <<buf_msgs, got>>
  /\ UNCHANGED mainVars


(* ------------------------------------------------------------------ main *)
\* Pairs created by one run of main.
MaxPairs == 3
\* Largest key_length handed to main.
MaxKeyLength == 1

ALL_MEASURED == "All qubits measured"
\* What socket.recv() may return where the completion signal is awaited.
SentinelMsgs == {ALL_MEASURED, "All qubits measuredEOF", "ACK"}

None == -1
Bool(b) == IF b THEN "True" ELSE "False"
Truthy(x) == x = "True"
Min(a, b) == IF a < b THEN a ELSE b
Max(a, b) == IF a > b THEN a ELSE b

\* PairInfo(index=i, basis=b, outcome=o), lines 162-183.
PairInfo(idx, b, o) ==
  [index |-> idx, basis |-> b, outcome |-> o,
   same_basis |-> "None", test_outcome |-> "None", same_outcome |-> "None"]

\* The lists a peer may answer to the local list loc of (index, value) tuples:
\* the same indices with any values, that list without its last element, with
\* one element more, or with one index off by one.
PeerLists(loc) ==
  LET n == Len(loc)
      same == {[p \in 1..n |-> <<loc[p][1], v[p]>>] : v \in [1..n -> {0, 1}]}
  IN same
     \cup {ButLast(l) : l \in {x \in same : n > 0}}
     \cup {Append(l, <<n, 0>>) : l \in same}
     \cup {[l EXCEPT ![p] = <<l[p][1] + 1, l[p][2]>>] : l \in same, p \in 1..n}

MainOff ==
  /\ mpc = "off"
  /\ num_bits = 0
  /\ key_length = 0
  /\ num_test_bits = 0
  /\ i = 0
  /\ basis_flips = <<>>
  /\ bit_flips = <<>>
  /\ m = None
  /\ qlog = <<>>
  /\ sentinel = "None"
  /\ sock_log = <<>>
  /\ pairs_info = <<>>
  /\ remote_bases = <<>>
  /\ test_indices = <<>>
  /\ test_outcomes = <<>>
  /\ target_test_outcomes = <<>>
  /\ error_rate = <<0, 1>>
  /\ report = <<>>
  /\ err = "none"

\* main is called with num_bits and key_length; line 188 has run.
MainInit ==
  /\ mpc = "start"
  /\ num_bits \in 0..MaxPairs
  /\ key_length \in 0..MaxKeyLength
  /\ num_test_bits = Max(num_bits \div 4, 1)
  /\ i = 0
  /\ basis_flips = <<>>
  /\ bit_flips = <<>>
  /\ m = None
  /\ qlog = <<>>
  /\ sentinel = "None"
  /\ sock_log = <<>>
  /\ pairs_info = <<>>
  /\ remote_bases = <<>>
  /\ test_indices = <<>>
  /\ test_outcomes = <<>>
  /\ target_test_outcomes = <<>>
  /\ error_rate = <<0, 1>>
  /\ report = <<>>
  /\ err = "none"

\* main raises exception e.
Raise(e) == mpc' = "raised" /\ err' = e

(* distribute_bb92_states, lines 50-83 *)
\* Mutant: the loop stops one pair early.
LoopOrReturn_OffByOne(idx) == IF idx + 1 < num_bits THEN "create" ELSE "build"

\* Where the loop of line 58 goes when the index is idx.
LoopOrReturn(idx) == IF idx < num_bits THEN "create" ELSE "build"

\* lines 52-55: the two lists.
DistributeBegin ==
  /\ mpc = "start"
  /\ \E flips \in [1..num_bits -> {0, 1}] : basis_flips' = flips
  /\ bit_flips' = [p \in 1..num_bits |-> None]
  /\ i' = 0
  /\ mpc' = LoopOrReturn(0)
  /\ UNCHANGED <<num_bits, key_length, num_test_bits, m, qlog, sentinel, sock_log, pairs_info,
                 remote_bases, test_indices, test_outcomes, target_test_outcomes, error_rate,
                 report, err>>
  /\ UNCHANGED chanVars

\* One call on the quantum SDK: the call is logged and main moves on.
QuantumStep(from, to, calls) ==
  /\ mpc = from
  /\ mpc' = to
  /\ qlog' = qlog \o calls
  /\ UNCHANGED <<num_bits, key_length, num_test_bits, i, basis_flips, bit_flips, sentinel,
                 sock_log, pairs_info, remote_bases, test_indices, test_outcomes,
                 target_test_outcomes, error_rate, report, err>>
  /\ UNCHANGED chanVars

\* line 60: q = epr_socket.create_keep(1)[0]
CreatePair == QuantumStep("create", "rotate", <<<<"create", i>>>>) /\ m' = None

\* The calls of lines 63-64 for basis flip b.
Rotation(b, idx) == IF b = 1 THEN <<<<"H", idx>>>> ELSE <<>>

\* lines 63-64: if basis_flips[i]: q.H()
Rotate == QuantumStep("rotate", "flush1", Rotation(basis_flips[i + 1], i)) /\ UNCHANGED m

\* Mutant: no flush before the measurement.
BeforeMeasure_NoFlush(idx) == <<>>

\* The calls made between the rotation and the measurement (line 71).
BeforeMeasure(idx) == <<<<"flush", idx>>>>

\* line 71: conn.flush()
FlushPair == QuantumStep("flush1", "measure", BeforeMeasure(i)) /\ UNCHANGED m

\* line 74: m = q.measure()
Measure == QuantumStep("measure", "flush2", <<<<"measure", i>>>>) /\ UNCHANGED m

\* line 77: conn.flush(), which gives the future m its value
FlushMeasure == QuantumStep("flush2", "record", <<<<"flush", i>>>>) /\ m' \in {0, 1}

\* line 80 and the loop of line 58: bit_flips[i] = int(m)
Record ==
  /\ mpc = "record"
  /\ bit_flips' = [bit_flips EXCEPT ![i + 1] = m]
  /\ qlog' = Append(qlog, <<"record", i>>)
  /\ i' = i + 1
  /\ mpc' = LoopOrReturn(i + 1)
  /\ UNCHANGED <<num_bits, key_length, num_test_bits, basis_flips, m, sentinel, sock_log,
                 pairs_info, remote_bases, test_indices, test_outcomes, target_test_outcomes,
                 error_rate, report, err>>
  /\ UNCHANGED chanVars

\* main, lines 217-226: one PairInfo per pair.
BuildPairs ==
  /\ mpc = "build"
  /\ pairs_info' = [p \in 1..num_bits |-> PairInfo(p - 1, basis_flips[p], bit_flips[p])]
  /\ mpc' = "sentinel"
  /\ UNCHANGED <<num_bits, key_length, num_test_bits, i, basis_flips, bit_flips, m, qlog,
                 sentinel, sock_log, remote_bases, test_indices, test_outcomes,
                 target_test_outcomes, error_rate, report, err>>
  /\ UNCHANGED chanVars

\* Mutant: any message passes for the completion signal.
IsCompletionSignal_Any(msg) == TRUE

\* line 230: whether the message received is the completion signal.
IsCompletionSignal(msg) == ~(msg # ALL_MEASURED)

\* main, lines 229-232: the completion signal is received from the peer.
AwaitSentinel ==
  /\ mpc = "sentinel"
  /\ \E msg \in SentinelMsgs :
       /\ sentinel' = msg
       /\ IF IsCompletionSignal(msg) THEN mpc' = "fb_send" /\ UNCHANGED err
          ELSE Raise("RuntimeError")
  /\ UNCHANGED <<num_bits, key_length, num_test_bits, i, basis_flips, bit_flips, m, qlog,
                 sock_log, pairs_info, remote_bases, test_indices, test_outcomes,
                 target_test_outcomes, error_rate, report>>
  /\ UNCHANGED chanVars

(* filter_bases, lines 86-102 *)
\* line 88: bases = [(i, pairs_info[i].basis) ...]
LocalBases(pairs) == [p \in 1..Len(pairs) |-> <<p - 1, pairs[p].basis>>]

\* lines 88-92: the local bases go out in one "Bases" message.
FilterBasesSend ==
  /\ mpc = "fb_send"
  /\ sock_log' = Append(sock_log, [dir |-> "send", header |-> "Bases"])
  /\ mpc' = "fb_recv"
  /\ UNCHANGED <<num_bits, key_length, num_test_bits, i, basis_flips, bit_flips, m, qlog,
                 sentinel, pairs_info, remote_bases, test_indices, test_outcomes,
                 target_test_outcomes, error_rate, report, err>>
  /\ UNCHANGED chanVars

\* Mutant: the indices are not compared.
SameIndex_Unchecked(idx, remote_idx) == TRUE

\* lines 99 and 141: assert i == remote_i
SameIndex(idx, remote_idx) == idx = remote_idx

RECURSIVE ZipBases(_, _, _, _)
\* The loop of lines 98-100 from position p of zip(bases, remote) on.
ZipBases(pairs, bases, remote, p) ==
  IF p > Min(Len(bases), Len(remote)) THEN [pairs |-> pairs, err |-> "none"]
  ELSE IF ~SameIndex(bases[p][1], remote[p][1]) THEN [pairs |-> pairs, err |-> "AssertionError"]
  ELSE ZipBases([pairs EXCEPT ![bases[p][1] + 1].same_basis = Bool(bases[p][2] = remote[p][2])],
                bases, remote, p + 1)

\* lines 95-102: the peer's bases come in and same_basis is set.
FilterBasesRecv ==
  /\ mpc = "fb_recv"
  /\ \E remote \in PeerLists(LocalBases(pairs_info)) :
       LET r == ZipBases(pairs_info, LocalBases(pairs_info), remote, 1)
       IN /\ remote_bases' = remote
          /\ pairs_info' = r.pairs
          /\ IF r.err = "none" THEN mpc' = "est_sample" /\ UNCHANGED err ELSE Raise(r.err)
  /\ sock_log' = Append(sock_log, [dir |-> "recv", header |-> "Bases"])
  /\ UNCHANGED <<num_bits, key_length, num_test_bits, i, basis_flips, bit_flips, m, qlog,
                 sentinel, test_indices, test_outcomes, target_test_outcomes, error_rate,
                 report>>
  /\ UNCHANGED chanVars

(* estimate_error_rate, lines 105-148 *)
\* line 107: the indices of the pairs with same_basis, in list order.
SameBasisIndices(pairs) ==
  LET kept == SelectSeq(pairs, LAMBDA pair : Truthy(pair.same_basis))
  IN [p \in 1..Len(kept) |-> kept[p].index]

Elems(l) == {l[p] : p \in 1..Len(l)}

\* Mutant: sampling with replacement.
Sample_WithReplacement(population, size) ==
  {[p \in 1..size |-> population[pos[p]]] : pos \in [1..size -> 1..Len(population)]}

\* random.sample(population, size): the lists of size elements at distinct
\* positions of population.
Sample(population, size) ==
  {[p \in 1..size |-> population[pos[p]]] :
     pos \in {f \in [1..size -> 1..Len(population)] : \A a, b \in 1..size : a # b => f[a] # f[b]}}

\* lines 110-112: how many indices are sampled.
SampleSize(k, count) == Min(k, count)

\* Mutant: the list comes back in reverse order.
MarkTests_Shuffled(pairs, indices) ==
  [p \in 1..Len(pairs) |->
     [pairs[Len(pairs) + 1 - p] EXCEPT
        !.test_outcome = Bool(pairs[Len(pairs) + 1 - p].index \in Elems(indices))]]

\* line 118: pair.test_outcome = pair.index in test_indices
MarkTests(pairs, indices) ==
  [p \in 1..Len(pairs) |-> [pairs[p] EXCEPT !.test_outcome = Bool(pairs[p].index \in Elems(indices))]]

\* Mutant: the local outcomes go out together with the indices.
SentAfterSampling_WithOutcomes ==
  <<[dir |-> "send", header |-> "Test indices"], [dir |-> "send", header |-> "Test outcomes"]>>

\* line 129: what is sent before the peer's outcomes are awaited.
SentAfterSampling == <<[dir |-> "send", header |-> "Test indices"]>>

\* lines 107-129: the test set is drawn, marked, and sent as "Test indices".
EstimateSample ==
  /\ mpc = "est_sample"
  /\ LET pool == SameBasisIndices(pairs_info)
     IN \E chosen \in Sample(pool, SampleSize(num_test_bits, Len(pool))) :
          /\ test_indices' = chosen
          /\ pairs_info' = MarkTests(pairs_info, chosen)
          /\ test_outcomes' = [p \in 1..Len(chosen) |-> <<chosen[p], pairs_info[chosen[p] + 1].outcome>>]
  /\ sock_log' = sock_log \o SentAfterSampling
  /\ mpc' = "est_recv"
  /\ UNCHANGED <<num_bits, key_length, num_test_bits, i, basis_flips, bit_flips, m, qlog,
                 sentinel, remote_bases, target_test_outcomes, error_rate, report, err>>
  /\ UNCHANGED chanVars

\* line 132: the peer's outcomes for the test set come in.
EstimateRecv ==
  /\ mpc = "est_recv"
  /\ target_test_outcomes' \in PeerLists(test_outcomes)
  /\ sock_log' = Append(sock_log, [dir |-> "recv", header |-> "Test outcomes"])
  /\ mpc' = "est_send"
  /\ UNCHANGED <<num_bits, key_length, num_test_bits, i, basis_flips, bit_flips, m, qlog,
                 sentinel, pairs_info, remote_bases, test_indices, test_outcomes, error_rate,
                 report, err>>
  /\ UNCHANGED chanVars

RECURSIVE ZipOutcomes_NeverFalse(_, _, _, _, _)
\* Mutant: a differing outcome is counted but the pair is marked as matching.
ZipOutcomes_NeverFalse(pairs, local, target, p, num_error) ==
  IF p > Min(Len(local), Len(target)) THEN [pairs |-> pairs, err |-> "none", num_error |-> num_error]
  ELSE IF ~SameIndex(local[p][1], target[p][1])
       THEN [pairs |-> pairs, err |-> "AssertionError", num_error |-> num_error]
  ELSE ZipOutcomes_NeverFalse([pairs EXCEPT ![local[p][1] + 1].same_outcome = "True"],
                              local, target, p + 1,
                              IF local[p][2] # target[p][2] THEN num_error + 1 ELSE num_error)

RECURSIVE ZipOutcomes(_, _, _, _, _)
\* The loop of lines 140-146 from position p of zip(local, target) on.
ZipOutcomes(pairs, local, target, p, num_error) ==
  IF p > Min(Len(local), Len(target)) THEN [pairs |-> pairs, err |-> "none", num_error |-> num_error]
  ELSE IF ~SameIndex(local[p][1], target[p][1])
       THEN [pairs |-> pairs, err |-> "AssertionError", num_error |-> num_error]
  ELSE IF local[p][2] # target[p][2]
       THEN ZipOutcomes([pairs EXCEPT ![local[p][1] + 1].same_outcome = "False"],
                        local, target, p + 1, num_error + 1)
       ELSE ZipOutcomes([pairs EXCEPT ![local[p][1] + 1].same_outcome = "True"],
                        local, target, p + 1, num_error)

\* lines 135-148: the local outcomes go out, the outcomes are compared and the
\* error rate num_error / num_test_bits is returned.
EstimateCompare ==
  /\ mpc = "est_send"
  /\ sock_log' = Append(sock_log, [dir |-> "send", header |-> "Test outcomes"])
  /\ LET r == ZipOutcomes(pairs_info, test_outcomes, target_test_outcomes, 1, 0)
     IN /\ pairs_info' = r.pairs
        /\ IF r.err # "none" THEN Raise(r.err) /\ UNCHANGED error_rate
           ELSE IF num_test_bits = 0 THEN Raise("ZeroDivisionError") /\ UNCHANGED error_rate
           ELSE /\ error_rate' = <<r.num_error, num_test_bits>>
                /\ mpc' = "report"
                /\ UNCHANGED err
  /\ UNCHANGED <<num_bits, key_length, num_test_bits, i, basis_flips, bit_flips, m, qlog,
                 sentinel, remote_bases, test_indices, test_outcomes, target_test_outcomes,
                 report>>
  /\ UNCHANGED chanVars

(* main, lines 244-316 *)
RECURSIVE Sum(_)
Sum(l) == IF l = <<>> THEN 0 ELSE Head(l) + Sum(Tail(l))

\* int(True) is 1 and int(False) is 0 in a sum.
AsInt(x) == IF x = "True" THEN 1 ELSE 0

\* Mutant: the tested pairs are left in the key.
RawKey_WithTested(pairs) ==
  LET kept == SelectSeq(pairs, LAMBDA pair : Truthy(pair.same_basis))
  IN [p \in 1..Len(kept) |-> kept[p].outcome]

\* line 245
RawKey(pairs) ==
  LET kept == SelectSeq(pairs, LAMBDA pair : ~Truthy(pair.test_outcome) /\ Truthy(pair.same_basis))
  IN [p \in 1..Len(kept) |-> kept[p].outcome]

\* Mutant: the key is not cut to the requested length.
Slice_Whole(l, n) == l

\* raw_key[0:key_length]
Slice(l, n) == SubSeq(l, 1, Min(n, Len(l)))

\* lines 268-282 raise TypeError when a None gets into one of the sums.
SumsRaise(pairs) ==
  \/ \E p \in 1..Len(pairs) : pairs[p].same_basis = "None"
  \/ \E p \in 1..Len(pairs) : Truthy(pairs[p].test_outcome) /\ pairs[p].same_outcome = "None"

\* Mutant: no special case for p == 0, so log2(0) is asked for.
h_NoZeroCase(p) ==
  IF p[1] = p[2] THEN <<"exact", 0>>
  ELSE IF 2 * p[1] = p[2] THEN <<"exact", 1>>
  ELSE <<"entropy", p[1], p[2]>>

\* h, lines 155-159, of the fraction p = <<numerator, denominator>>: 0 at 0 and
\* at 1, 1 at 1/2 (-0.5 * log2(0.5) - 0.5 * log2(0.5)), and elsewhere a value
\* strictly between 0 and 1 that is kept symbolic.
h(p) ==
  IF p[1] = 0 \/ p[1] = p[2] THEN <<"exact", 0>>
  ELSE IF 2 * p[1] = p[2] THEN <<"exact", 1>>
  ELSE <<"entropy", p[1], p[2]>>

\* line 286: key_rate_potential = 1 - 2 * h(qber)
KeyRatePotential(qber) ==
  IF h(qber)[1] = "exact" THEN <<"exact", 1 - 2 * h(qber)[2]>>
  ELSE <<"1-2h", qber[1], qber[2]>>

\* lines 264-316: the record main returns.
ReportOf(pairs, n, length) ==
  LET x_basis_count == Sum([p \in 1..Len(pairs) |-> pairs[p].basis])
      same_basis_count == Sum([p \in 1..Len(pairs) |-> AsInt(pairs[p].same_basis)])
      compared == SelectSeq(pairs, LAMBDA pair : Truthy(pair.same_basis))
      outcome_comparison_count == Sum([p \in 1..Len(compared) |-> AsInt(compared[p].test_outcome)])
      tested == SelectSeq(pairs, LAMBDA pair : Truthy(pair.test_outcome))
      diff_outcome_count ==
        outcome_comparison_count - Sum([p \in 1..Len(tested) |-> AsInt(tested[p].same_outcome)])
      qber == IF outcome_comparison_count = 0 THEN <<1, 1>>
              ELSE <<diff_outcome_count, outcome_comparison_count>>
  IN [secret_key |-> Slice(RawKey(pairs), length),
      table |-> [p \in 1..Len(pairs) |->
                   <<pairs[p].index,
                     IF pairs[p].basis = 1 THEN "X" ELSE "Z",
                     pairs[p].same_basis,
                     pairs[p].outcome,
                     IF Truthy(pairs[p].test_outcome) THEN pairs[p].same_outcome ELSE "-">>],
      x_basis_count |-> x_basis_count,
      z_basis_count |-> n - x_basis_count,
      same_basis_count |-> same_basis_count,
      outcome_comparison_count |-> outcome_comparison_count,
      diff_outcome_count |-> diff_outcome_count,
      qber |-> qber,
      key_rate_potential |-> KeyRatePotential(qber),
      raw_key |-> RawKey(pairs)]

\* main, lines 244-316: the raw key and the statistics are returned.
Report ==
  /\ mpc = "report"
  /\ IF SumsRaise(pairs_info) THEN Raise("TypeError") /\ UNCHANGED report
     ELSE /\ report' = <<ReportOf(pairs_info, num_bits, key_length)>>
          /\ mpc' = "done"
          /\ UNCHANGED err
  /\ UNCHANGED <<num_bits, key_length, num_test_bits, i, basis_flips, bit_flips, m, qlog,
                 sentinel, sock_log, pairs_info, remote_bases, test_indices, test_outcomes,
                 target_test_outcomes, error_rate>>
  /\ UNCHANGED chanVars

(* -------------------------------------------------------- specifications *)
vars == <<chanVars, mainVars>>

\* The two endpoints of the framed channel, every read returning whole frames.
Init == ChanInit /\ MainOff

Next ==
  \E e \in Ends :
    \/ \E msg \in RawMsgs : SendSingle(e, msg)
    \/ RecvSingle(e)
    \/ \E d \in Data : SA_Send(e, d)
    \/ SA_Wait(e)
    \/ RA_Recv(e)
    \/ RA_Ack(e)

Spec == Init /\ [][Next]_vars

\* One run of main.
InitMain == ChanInit /\ MainInit

NextMain ==
  \/ DistributeBegin
  \/ CreatePair
  \/ Rotate
  \/ FlushPair
  \/ Measure
  \/ FlushMeasure
  \/ Record
  \/ BuildPairs
  \/ AwaitSentinel
  \/ FilterBasesSend
  \/ FilterBasesRecv
  \/ EstimateSample
  \/ EstimateRecv
  \/ EstimateCompare
  \/ Report

SpecMain == InitMain /\ [][NextMain]_vars

\* distribute_bb92_states alone.
NextDistribute ==
  \/ DistributeBegin
  \/ CreatePair
  \/ Rotate
  \/ FlushPair
  \/ Measure
  \/ FlushMeasure
  \/ Record

SpecDistribute == InitMain /\ [][NextDistribute]_vars

\* sendClassicalAssured at alice answered by one recvClassicalAssured at bob,
\* both sides running on.
NextRoundTrip ==
  \/ \E d \in RoundTripData : sent["alice"] = <<>> /\ SA_Send("alice", d)
  \/ SA_Wait("alice")
  \/ got["bob"] = <<>> /\ RA_Recv("bob")
  \/ RA_Ack("bob")

FairRoundTrip == Init /\ [][NextRoundTrip]_vars /\ WF_vars(NextRoundTrip)

\* estimate_error_rate called on any reconciled list of pairs with any target
\* sample size.
MaxPool == 3
MaxTestBits == 2

InitEstimate ==
  /\ ChanInit
  /\ mpc = "est_sample"
  /\ num_bits \in 0..MaxPool
  /\ pairs_info \in {[p \in 1..num_bits |->
                        [PairInfo(p - 1, (p - 1) % 2, o[p]) EXCEPT !.same_basis = sb[p]]] :
                      o \in [1..num_bits -> {0, 1}],
                      sb \in [1..num_bits -> {"True", "False", "None"}]}
  /\ num_test_bits \in 0..MaxTestBits
  /\ key_length = 0
  /\ i = num_bits
  /\ basis_flips = [p \in 1..num_bits |-> pairs_info[p].basis]
  /\ bit_flips = [p \in 1..num_bits |-> pairs_info[p].outcome]
  /\ m = None
  /\ qlog = <<>>
  /\ sentinel = ALL_MEASURED
  /\ sock_log = <<>>
  /\ remote_bases = <<>>
  /\ test_indices = <<>>
  /\ test_outcomes = <<>>
  /\ target_test_outcomes = <<>>
  /\ error_rate = <<0, 1>>
  /\ report = <<>>
  /\ err = "none"

NextEstimate ==
  \/ EstimateSample
  \/ EstimateRecv
  \/ EstimateCompare

SpecEstimate == InitEstimate /\ [][NextEstimate]_vars

\* The channel over a byte stream: what socket.recv() returns need not end where
\* a send ended.  Messages without the delimiter in them.
StreamMsgs == {ACK, <<"x">>}

\* A chunk that is one whole frame, msg + EOF, as send_single_msg wrote it.
IsFrame(chunk) == \E msg \in StreamMsgs : chunk = msg \o EOF

\* The stream delivers a frame towards e in two pieces; a frame is cut at most
\* once.
Fragment(e) ==
  /\ \E p \in 1..Len(wire[e]) :
       /\ IsFrame(wire[e][p])
       /\ \E k \in 1..(Len(wire[e][p]) - 1) :
            wire' = [wire EXCEPT ![e] =
                       SubSeq(@, 1, p - 1)
                       \o <<SubSeq(@[p], 1, k), SubSeq(@[p], k + 1, Len(@[p]))>>
                       \o SubSeq(@, p + 1, Len(@))]
  /\ UNCHANGED <<buf_msgs, pc, data, ret, sent, got>>
  /\ UNCHANGED mainVars

NextStream ==
  \E e \in Ends :
    \/ \E msg \in StreamMsgs : SendSingle(e, msg)
    \/ Fragment(e)
    \/ RecvSingle(e)

SpecStream == Init /\ [][NextStream]_vars

\* main(num_bits=8) with its default key_length, after filter_bases has
\* returned: Alice measured ScenarioOutcomes in ScenarioBases (0 is Z, 1 is X)
\* and the peer sent a full, index-aligned list of any bases.
DefaultKeyLength == 16
ScenarioBases == <<0, 0, 1, 1, 0, 1, 0, 1>>
ScenarioOutcomes == <<0, 1, 1, 0, 1, 0, 1, 1>>

RECURSIVE DistributionLog(_, _)
\* The SDK calls of lines 58-80 for the pairs from index idx on.
DistributionLog(bases, idx) ==
  IF idx >= Len(bases) THEN <<>>
  ELSE <<<<"create", idx>>>> \o Rotation(bases[idx + 1], idx) \o BeforeMeasure(idx)
       \o <<<<"measure", idx>>, <<"flush", idx>>, <<"record", idx>>>>
       \o DistributionLog(bases, idx + 1)

ScenarioPairs ==
  [p \in 1..Len(ScenarioBases) |-> PairInfo(p - 1, ScenarioBases[p], ScenarioOutcomes[p])]

InitScenario ==
  /\ ChanInit
  /\ mpc = "est_sample"
  /\ num_bits = Len(ScenarioBases)
  /\ key_length = DefaultKeyLength
  /\ num_test_bits = Max(num_bits \div 4, 1)
  /\ i = num_bits
  /\ basis_flips = ScenarioBases
  /\ bit_flips = ScenarioOutcomes
  /\ m = ScenarioOutcomes[Len(ScenarioOutcomes)]
  /\ qlog = DistributionLog(ScenarioBases, 0)
  /\ sentinel = ALL_MEASURED
  /\ sock_log = <<[dir |-> "send", header |-> "Bases"], [dir |-> "recv", header |-> "Bases"]>>
  /\ remote_bases \in {[p \in 1..num_bits |-> <<p - 1, b[p]>>] : b \in [1..num_bits -> {0, 1}]}
  /\ pairs_info = ZipBases(ScenarioPairs, LocalBases(ScenarioPairs), remote_bases, 1).pairs
  /\ test_indices = <<>>
  /\ test_outcomes = <<>>
  /\ target_test_outcomes = <<>>
  /\ error_rate = <<0, 1>>
  /\ report = <<>>
  /\ err = "none"

NextScenario ==
  \/ EstimateSample
  \/ EstimateRecv
  \/ EstimateCompare
  \/ Report

SpecScenario == InitScenario /\ [][NextScenario]_vars

(* ---------------------------------------------------------------- claims *)
MsgsOf(log) == [p \in 1..Len(log) |-> log[p].msg]
IsPrefix(a, b) == Len(a) <= Len(b) /\ SubSeq(b, 1, Len(a)) = a

\* The logical messages the receiver's delimiting finds in some bytes.
Delimit(bytes) == ButLast(split(bytes, EOF))
\* Everything the peer of e has put on the wire so far, as e delimits it.
Stream(e) == Delimit(Concat([p \in 1..Len(sent[Peer(e)]) |-> sent[Peer(e)][p].msg \o EOF]))
\* What e has not returned yet: its buffer, then what is in flight.
Pending(e) == buf_msgs[e] \o Delimit(Concat(wire[e]))

\* C1: the messages recv_single_msg has returned at an endpoint are, in order
\* and one per call, the first messages its peer passed to send_single_msg.
C1_FifoInSendOrder == \A e \in Ends : IsPrefix(MsgsOf(got[e]), MsgsOf(sent[Peer(e)]))

\* C2: sendClassicalAssured leaves its loop only in the step in which
\* recv_single_msg returns "ACK"; every other message it receives there is
\* consumed for good: what was returned, then what is buffered and in flight,
\* is always exactly the stream the peer sent, so a dropped message is never
\* returned again.
C2_ReturnsOnAckDropsRest ==
  /\ [](\A e \in Ends :
          /\ MsgsOf(got[e]) \o Pending(e) = Stream(e)
          /\ \A p \in 1..Len(got[e]) : got[e][p].ctx = "drop" => got[e][p].msg # ACK)
  /\ [][\A e \in Ends :
          /\ (pc[e] = "await" /\ pc'[e] = "idle")
               => got'[e] = Append(got[e], [msg |-> ACK, ctx |-> "ack"])
          /\ (pc[e] = "await" /\ got'[e] # got[e] /\ got'[e][Len(got'[e])].msg # ACK)
               => pc'[e] = "await"]_vars

\* Reached: a sendClassicalAssured that dropped a message and then returned.
C2_Witness ==
  \E e \in Ends :
    /\ pc[e] = "idle"
    /\ \E p, q \in 1..Len(got[e]) : p < q /\ got[e][p].ctx = "drop" /\ got[e][q].ctx = "ack"

\* C3: a recvClassicalAssured that returns has taken exactly one message from
\* what was pending, sent nothing before it had that message, then sent
\* exactly one "ACK", and returns the value whose serialisation the message is.
C3_RecvAssuredOneMessageOneAck ==
  [][\A e \in Ends :
       /\ (pc[e] = "idle" /\ pc'[e] = "ack")
            => /\ Len(got'[e]) = Len(got[e]) + 1
               /\ Pending(e) = <<got'[e][Len(got'[e])].msg>> \o Pending(e)'
               /\ sent'[e] = sent[e]
       /\ (pc[e] = "ack" /\ pc'[e] # "ack")
            => /\ pc'[e] = "idle"
               /\ got'[e] = got[e]
               /\ Pending(e)' = Pending(e)
               /\ sent'[e] = Append(sent[e], [msg |-> ACK, ctx |-> "ack"])
               /\ ret'[e][1] \in {"int", "str"}
               /\ dumps(ret'[e]) = got[e][Len(got[e])].msg]_vars

\* Reached: a recvClassicalAssured has returned a string.
C3_Witness == \E e \in Ends : pc[e] = "idle" /\ ret[e][1] = "str"

\* C4: alice's sendClassicalAssured, answered by bob's recvClassicalAssured,
\* eventually returns.
C4_RoundTripCompletes == <>(sent["alice"] # <<>> /\ pc["alice"] = "idle")

Pos(ev) == IF \E a \in 1..Len(qlog) : qlog[a] = ev
           THEN CHOOSE a \in 1..Len(qlog) : qlog[a] = ev ELSE 0
Logged(ev) == Pos(ev) > 0
FlushBetween(a, b) == \E c \in (a + 1)..(b - 1) : qlog[c][1] = "flush"

\* C5: for every pair j the calls are made in the order create, H (exactly
\* when basis_flips[j] is 1), flush, measure, flush, record; a measurement has
\* a flush between the creation of its pair and itself, and pair j+1 is
\* created only after the outcome of pair j is recorded.
C5_PairOrdering ==
  \A j \in 0..(Len(bit_flips) - 1) :
    /\ Logged(<<"H", j>>)
         => basis_flips[j + 1] = 1 /\ Logged(<<"create", j>>)
            /\ Pos(<<"create", j>>) < Pos(<<"H", j>>)
    /\ Logged(<<"measure", j>>)
         => /\ Logged(<<"create", j>>)
            /\ FlushBetween(Pos(<<"create", j>>), Pos(<<"measure", j>>))
            /\ (basis_flips[j + 1] = 1
                  => Logged(<<"H", j>>) /\ FlushBetween(Pos(<<"H", j>>), Pos(<<"measure", j>>)))
    /\ Logged(<<"record", j>>)
         => /\ Logged(<<"measure", j>>)
            /\ FlushBetween(Pos(<<"measure", j>>), Pos(<<"record", j>>))
            /\ bit_flips[j + 1] \in {0, 1}
    /\ bit_flips[j + 1] # None => Logged(<<"record", j>>)
    /\ (j > 0 /\ Logged(<<"create", j>>))
         => Logged(<<"record", j - 1>>) /\ Pos(<<"record", j - 1>>) < Pos(<<"create", j>>)
    /\ Cardinality({a \in 1..Len(qlog) : qlog[a] \in {<<"create", j>>, <<"measure", j>>}}) <= 2

\* Reached: two pairs distributed, one rotated and one not.
C5_Witness ==
  /\ mpc = "build"
  /\ num_bits >= 2
  /\ \E a, b \in 1..num_bits : basis_flips[a] = 1 /\ basis_flips[b] = 0

Reconciling == mpc \in {"fb_send", "fb_recv", "est_sample", "est_recv", "est_send", "report", "done"}

\* C6 as stated: once Basis Reconciliation has started, alice has sent the
\* completion signal.
C6_AliceSendsSentinel ==
  Reconciling => \E p \in 1..Len(sock_log) :
                   sock_log[p] = [dir |-> "send", header |-> ALL_MEASURED]

\* C6 amended: when Basis Reconciliation starts, all n pairs are created and
\* measured and alice has received the completion signal from the peer; the
\* first message she sends is "Bases".
C6_AliceReceivesSentinel ==
  (Reconciling \/ sock_log # <<>>)
    => /\ sentinel = ALL_MEASURED
       /\ Len(bit_flips) = num_bits
       /\ \A j \in 0..(num_bits - 1) :
            bit_flips[j + 1] \in {0, 1} /\ Logged(<<"create", j>>) /\ Logged(<<"measure", j>>)
       /\ sock_log # <<>> => sock_log[1] = [dir |-> "send", header |-> "Bases"]

\* Reached: Basis Reconciliation about to start after some pairs.
C6_Witness == mpc = "fb_send" /\ num_bits >= 1

\* C7: when the message received where the completion signal is awaited is not
\* "All qubits measured", main has raised RuntimeError, has sent no "Bases"
\* message and has returned no report.
C7_UnexpectedSentinelFatal ==
  sentinel \notin {"None", ALL_MEASURED}
    => mpc = "raised" /\ err = "RuntimeError" /\ sock_log = <<>> /\ report = <<>>

\* Reached: another message came in the place of the completion signal.
C7_Witness == sentinel = "ACK" /\ num_bits >= 1

FilterReturned == mpc \in {"est_sample", "est_recv", "est_send", "report", "done"}

\* C8: after filter_bases returns, same_basis of every pair is a boolean, equal
\* to whether the local and the peer's basis of that pair are equal.
C8_SameBasisSetEverywhere ==
  FilterReturned
    => \A p \in 1..num_bits :
         /\ pairs_info[p].same_basis \in {"True", "False"}
         /\ p <= Len(remote_bases)
              => pairs_info[p].same_basis = Bool(basis_flips[p] = remote_bases[p][2])

Misaligned(local, remote) ==
  \E p \in 1..Min(Len(local), Len(remote)) : local[p][1] # remote[p][1]

\* C9: when the peer's "Bases" list or the peer's test-outcome list has a
\* different index than the local list at some position, main raises and
\* returns no report.
C9_DesyncFatal ==
  /\ Misaligned(LocalBases(pairs_info), remote_bases)
       => mpc = "raised" /\ err = "AssertionError" /\ report = <<>>
  /\ Misaligned(test_outcomes, target_test_outcomes)
       => /\ mpc \in {"est_send", "raised"}
          /\ mpc = "raised" => err = "AssertionError"
          /\ report = <<>>

\* Reached: the run aborted on a misaligned test-outcome list.
C9_Witness ==
  mpc = "raised" /\ err = "AssertionError" /\ Misaligned(test_outcomes, target_test_outcomes)

PoolOf(pairs) == {pairs[p].index : p \in {q \in 1..Len(pairs) : pairs[q].same_basis = "True"}}

\* C10: once the test set is drawn it has exactly min(k, count) indices, count
\* being the number of pairs with same_basis true; they are pairwise distinct
\* indices of pairs with same_basis true, and test_outcome is true for exactly
\* the pairs of the test set and false for all others.
C10_TestSetSampling ==
  mpc # "est_sample"
    => /\ Len(test_indices) = Min(num_test_bits, Cardinality(PoolOf(pairs_info)))
       /\ \A a, b \in 1..Len(test_indices) : a # b => test_indices[a] # test_indices[b]
       /\ \A a \in 1..Len(test_indices) : test_indices[a] \in PoolOf(pairs_info)
       /\ \A p \in 1..Len(pairs_info) :
            pairs_info[p].test_outcome =
              (IF \E a \in 1..Len(test_indices) : test_indices[a] = pairs_info[p].index
               THEN "True" ELSE "False")

\* Reached: two indices drawn from a pool of three.
C10_Witness ==
  mpc = "est_recv" /\ Len(test_indices) = 2 /\ Cardinality(PoolOf(pairs_info)) = 3

PosInLog(dir, header) ==
  {p \in 1..Len(sock_log) : sock_log[p] = [dir |-> dir, header |-> header]}

\* C11: in Error Estimation "Test indices" is sent first, then the peer's
\* outcomes are received, and the local "Test outcomes" are sent only after
\* that receive; they are sent once, and never before the peer's outcomes came.
C11_OutcomesSentAfterReceive ==
  /\ \A p \in PosInLog("send", "Test outcomes") :
       \E q \in PosInLog("recv", "Test outcomes") :
         /\ q < p
         /\ \E r \in PosInLog("send", "Test indices") : r < q
  /\ \A q \in PosInLog("recv", "Test outcomes") :
       \E r \in PosInLog("send", "Test indices") : r < q
  /\ Cardinality(PosInLog("send", "Test outcomes")) <= 1
  /\ mpc = "report" => PosInLog("send", "Test outcomes") # {}

\* Reached: the exchange is over, with a test set that is not empty.
C11_Witness ==
  mpc = "report" /\ test_indices # <<>> /\ PosInLog("send", "Test outcomes") # {}

\* estimate_error_rate has run to its end, by return or by an exception.
EstimateEnded ==
  \/ mpc \in {"report", "done"}
  \/ mpc = "raised" /\ PosInLog("send", "Test outcomes") # {}

\* C12: in a run with at least one pair, all of them reconciled, when the
\* target sample size is 0 or no pair has same_basis true, Error Estimation ends without an exception and
\* the error rate it returns is 1.
C12_InsufficientSampleYieldsOne ==
  (/\ EstimateEnded
   /\ num_bits >= 1
   /\ \A p \in 1..Len(pairs_info) : pairs_info[p].same_basis \in {"True", "False"}
   /\ (num_test_bits = 0 \/ PoolOf(pairs_info) = {}))
    => /\ err \notin {"ZeroDivisionError", "AssertionError"}
       /\ error_rate[1] = error_rate[2]

\* The positions of the pairs that may give a key bit.
KeyPairs == {p \in 1..Len(pairs_info) :
               pairs_info[p].same_basis = "True" /\ pairs_info[p].test_outcome = "False"}
\* The a-th of them in ascending order.
NthKeyPair(a) == CHOOSE p \in KeyPairs : Cardinality({q \in KeyPairs : q < p}) = a - 1

\* C13: the raw key of the report is the measured outcomes of exactly the pairs
\* with same_basis true and test_outcome false, in ascending index order; the
\* bounded key is its first key_length bits, or all of it when it is shorter.
C13_RawKeyExtraction ==
  report # <<>>
    => LET raw == report[1].raw_key
           key == report[1].secret_key
       IN /\ Len(raw) = Cardinality(KeyPairs)
          /\ \A a \in 1..Len(raw) : raw[a] = bit_flips[NthKeyPair(a)]
          /\ Len(key) = (IF Len(raw) < key_length THEN Len(raw) ELSE key_length)
          /\ \A a \in 1..Len(key) : key[a] = raw[a]

\* Reached: a raw key of two different bits cut to one bit.
C13_Witness ==
  /\ report # <<>>
  /\ key_length = 1
  /\ Len(report[1].raw_key) = 2
  /\ report[1].raw_key[1] # report[1].raw_key[2]

\* C14: the bounded key of a report has at most key_length bits and at most
\* same_basis_count - outcome_comparison_count bits.
C14_KeyLengthBounds ==
  report # <<>>
    => /\ Len(report[1].secret_key) <= key_length
       /\ Len(report[1].secret_key)
            <= report[1].same_basis_count - report[1].outcome_comparison_count

\* Reached: a key that fills key_length while more bits were available.
C14_Witness ==
  /\ report # <<>>
  /\ key_length >= 1
  /\ Len(report[1].secret_key) = key_length
  /\ report[1].same_basis_count - report[1].outcome_comparison_count > key_length

\* The positions of the test set where the peer's outcome differs.
Differing ==
  {a \in 1..Len(test_outcomes) :
     a <= Len(target_test_outcomes) /\ test_outcomes[a][2] # target_test_outcomes[a][2]}

C16_ErrorFreeRun ==
  (/\ report # <<>>
   /\ Len(test_indices) >= 1
   /\ \A a \in 1..Len(test_outcomes) :
        a <= Len(target_test_outcomes) /\ target_test_outcomes[a] = test_outcomes[a])
    => /\ report[1].qber[1] = 0
       /\ report[1].key_rate_potential = <<"exact", 1>>

\* Reached: the run with peer bases [Z,X,X,Z,Z,X,Z,X], hence the pool
\* {0,2,4,5,6,7}, a test set of size 2 and identical peer outcomes.
C16_Witness ==
  /\ report # <<>>
  /\ [p \in 1..Len(remote_bases) |-> remote_bases[p][2]] = <<0, 1, 1, 0, 0, 1, 0, 1>>
  /\ PoolOf(pairs_info) = {0, 2, 4, 5, 6, 7}
  /\ Len(test_indices) = 2
  /\ target_test_outcomes = test_outcomes

\* C19: in every run that compares at least one outcome, the error rate
\* estimate_error_rate returned equals the qber of the report.
C19_ErrorRateEqualsQber ==
  (report # <<>> /\ report[1].outcome_comparison_count >= 1)
    => error_rate[1] * report[1].qber[2] = report[1].qber[1] * error_rate[2]

\* What creation fixes: index, basis and outcome of every pair, in list order.
Created(pairs) == [p \in 1..Len(pairs) |-> <<pairs[p].index, pairs[p].basis, pairs[p].outcome>>]

\* The fields Basis Reconciliation and Error Estimation write.
Reconciled(pairs) == [p \in 1..Len(pairs) |-> pairs[p].same_basis]
Estimated(pairs) == [p \in 1..Len(pairs) |-> <<pairs[p].test_outcome, pairs[p].same_outcome>>]

\* C17: once the pairs are created a step never changes their number, order,
\* index, basis or outcome; a step of filter_bases changes at most same_basis,
\* a step of estimate_error_rate at most test_outcome and same_outcome, any
\* other step nothing; and pairs_info[i].index = i after every step.
C17_StageFrame ==
  [][/\ pairs_info # <<>> => Created(pairs_info') = Created(pairs_info)
     /\ (pairs_info # <<>> /\ mpc \in {"fb_send", "fb_recv"})
          => Estimated(pairs_info') = Estimated(pairs_info)
     /\ (pairs_info # <<>> /\ mpc \in {"est_sample", "est_recv", "est_send"})
          => Reconciled(pairs_info') = Reconciled(pairs_info)
     /\ (pairs_info # <<>> /\ mpc \notin {"fb_send", "fb_recv", "est_sample", "est_recv", "est_send"})
          => pairs_info' = pairs_info
     /\ \A p \in 1..Len(pairs_info') : pairs_info'[p].index = p - 1]_vars

\* Reached: a report over two pairs that both stages have written, one tested
\* and compared, the other left for the key.
C17_Witness ==
  /\ report # <<>>
  /\ Len(pairs_info) >= 2
  /\ \E p, q \in 1..Len(pairs_info) :
       /\ pairs_info[p].same_basis = "True" /\ pairs_info[p].test_outcome = "True"
       /\ pairs_info[p].same_outcome \in {"True", "False"}
       /\ pairs_info[q].same_basis = "True" /\ pairs_info[q].test_outcome = "False"

\* C18: however the stream cuts the sent bytes into reads, no call of
\* recv_single_msg fails, the messages returned are the messages sent, in
\* order and intact, and once nothing is buffered or in flight every sent
\* message has been returned.
C18_ReliableDelimiting ==
  \A e \in Ends :
    /\ pc[e] # "raised"
    /\ IsPrefix(MsgsOf(got[e]), MsgsOf(sent[Peer(e)]))
    /\ (wire[e] = <<>> /\ buf_msgs[e] = <<>>) => MsgsOf(got[e]) = MsgsOf(sent[Peer(e)])

\* The bytes a step took off the wire towards e.
BytesRead(e) == Concat(SubSeq(wire[e], 1, Len(wire[e]) - Len(wire'[e])))

\* C20: the step in which sendClassicalAssured gets its "ACK" from a read
\* leaves exactly the messages that follow the "ACK" in that read in the
\* leftover buffer, in order; and while the buffer is not empty every message
\* returned at that endpoint is the head of the buffer, the rest of the
\* buffer stays, and nothing is read from the socket.
C20_BehindAckSurvives ==
  [][\A e \in Ends :
       /\ (pc[e] = "await" /\ pc'[e] = "idle" /\ buf_msgs[e] = <<>>)
            => /\ Delimit(BytesRead(e)) = <<ACK>> \o buf_msgs'[e]
               /\ Pending(e) = <<ACK>> \o Pending(e)'
       /\ (buf_msgs[e] # <<>> /\ got'[e] # got[e])
            => /\ got'[e] = Append(got[e], [msg |-> Head(buf_msgs[e]), ctx |-> got'[e][Len(got'[e])].ctx])
               /\ buf_msgs'[e] = Tail(buf_msgs[e])
               /\ wire'[e] = wire[e]]_vars

\* Reached: sendClassicalAssured has just returned and a message that came
\* with the "ACK" is waiting in the buffer.
C20_Witness ==
  \E e \in Ends :
    /\ pc[e] = "idle"
    /\ got[e] # <<>>
    /\ got[e][Len(got[e])].ctx = "ack"
    /\ buf_msgs[e] # <<>>
====
